---------------------------- MODULE Spec2Model ----------------------------
(***************************************************************************)
(* A model of src/LeicaData.py (class DataPreprocessing):                  *)
(*   - process_threaded: one worker thread per complete station triple,    *)
(*     a counting semaphore, a lock around the shared result list, the     *)
(*     join loop, the sort by first-record timestamp, output_excel;        *)
(*   - merge_data: the angle-driven join of the three parsed row lists;    *)
(*   - processing_angle: the parser of an angle-type export.               *)
(* Python lists are sequences (0-based index i is element i + 1), strings  *)
(* that the code parses are sequences of one-character strings.            *)
(***************************************************************************)
EXTENDS Integers, Sequences, FiniteSets, TLC

\* ------------------------------------------------------------------ bounds
NumStations == 3      \* folders found by get_files (len(self.files))
MaxThreads == 2       \* largest max_threads tried (the code's default is 16)

MaxRows == 2          \* longest row list given to merge_data
MaxBody == 4          \* most body rows of an angle-type export
MaxRounds == 2        \* largest total_rounds in a header
MaxPerRound == 2      \* largest third header field

Stations == 1..NumStations

Min(a, b) == IF a <= b THEN a ELSE b

\* ------------------------------------------------- strings and timestamps
Digits == {"0", "1", "2", "3", "4", "5", "6", "7", "8", "9"}

DigitVal(c) ==
    CASE c = "0" -> 0 [] c = "1" -> 1 [] c = "2" -> 2 [] c = "3" -> 3
      [] c = "4" -> 4 [] c = "5" -> 5 [] c = "6" -> 6 [] c = "7" -> 7
      [] c = "8" -> 8 [] c = "9" -> 9

\* str.split(sep) restricted to a one-character separator
RECURSIVE SplitAcc(_, _, _)
SplitAcc(str, sep, cur) ==
    IF str = <<>> THEN <<cur>>
    ELSE IF Head(str) = sep THEN <<cur>> \o SplitAcc(Tail(str), sep, <<>>)
    ELSE SplitAcc(Tail(str), sep, Append(cur, Head(str)))

Split(str, sep) == SplitAcc(str, sep, <<>>)

IsNumber(f) == Len(f) > 0 /\ \A i \in 1..Len(f) : f[i] \in Digits

RECURSIVE ToNat(_)
ToNat(f) == IF f = <<>> THEN 0
            ELSE 10 * ToNat(SubSeq(f, 1, Len(f) - 1)) + DigitVal(f[Len(f)])

IsLeap(y) == (y % 4 = 0 /\ y % 100 # 0) \/ y % 400 = 0

DaysInMonth(y, m) ==
    IF m = 2 THEN (IF IsLeap(y) THEN 29 ELSE 28)
    ELSE IF m \in {4, 6, 9, 11} THEN 30 ELSE 31

ValueError == <<>>

\* datetime.strptime(str, '%Y-%m-%d %H:%M:%S'): the datetime as
\* <<year, month, day, hour, minute, second>>, or ValueError.
Strptime(str) ==
    LET parts == Split(str, " ") IN
    IF Len(parts) # 2 THEN ValueError
    ELSE
      LET d == Split(parts[1], "-")
          t == Split(parts[2], ":")
      IN
      IF Len(d) # 3 \/ Len(t) # 3 THEN ValueError
      ELSE IF (\E i \in 1..3 : ~IsNumber(d[i]) \/ ~IsNumber(t[i])) THEN ValueError
      ELSE IF \/ Len(d[1]) # 4
              \/ (\E j \in 2..3 : Len(d[j]) > 2)
              \/ (\E k \in 1..3 : Len(t[k]) > 2) THEN ValueError
      ELSE
        LET Y == ToNat(d[1])  M == ToNat(d[2])  D == ToNat(d[3])
            h == ToNat(t[1])  mi == ToNat(t[2])  s == ToNat(t[3])
        IN
        IF /\ Y >= 1 /\ M \in 1..12 /\ D >= 1 /\ D <= DaysInMonth(Y, M)
           /\ h <= 23 /\ mi <= 59 /\ s <= 59
        THEN <<Y, M, D, h, mi, s>>
        ELSE ValueError

\* datetime.__lt__: the fields compared in order
RECURSIVE TupleLess(_, _)
TupleLess(a, b) ==
    IF a = <<>> \/ b = <<>> THEN FALSE
    ELSE IF Head(a) # Head(b) THEN Head(a) < Head(b)
    ELSE TupleLess(Tail(a), Tail(b))

DatetimeLess(a, b) == TupleLess(a, b)

\* The sort key of line 331, lambda x: strptime(x[0][10] + ' ' + x[0][11]).
\* A merged record is kept as the three fields process_threaded reads:
\* index 0 (station), 10 (date), 11 (time).
KeyString(x) == x[1].date \o <<" ">> \o x[1].time

\* "IndexError" for a batch with no record, ValueError for a bad timestamp
SortKey(x) == IF x = <<>> THEN ValueError ELSE Strptime(KeyString(x))

KeyFails(x) == SortKey(x) = ValueError

\* (mutant) a descending insertion
RECURSIVE InsertByKeyDescending(_, _)
InsertByKeyDescending(sorted, x) ==
    IF sorted = <<>> THEN <<x>>
    ELSE IF DatetimeLess(SortKey(Head(sorted)), SortKey(x))
         THEN <<x>> \o sorted
         ELSE <<Head(sorted)>> \o InsertByKeyDescending(Tail(sorted), x)

\* (mutant) an insertion that puts an element before its equals
RECURSIVE InsertByKeyUnstable(_, _)
InsertByKeyUnstable(sorted, x) ==
    IF sorted = <<>> THEN <<x>>
    ELSE IF ~DatetimeLess(SortKey(Head(sorted)), SortKey(x))
         THEN <<x>> \o sorted
         ELSE <<Head(sorted)>> \o InsertByKeyUnstable(Tail(sorted), x)

\* list.sort is stable and ascending: each element goes after the elements
\* whose key is not greater than its own.
RECURSIVE InsertByKey(_, _)
InsertByKey(sorted, x) ==
    IF sorted = <<>> THEN <<x>>
    ELSE IF DatetimeLess(SortKey(x), SortKey(Head(sorted)))
         THEN <<x>> \o sorted
         ELSE <<Head(sorted)>> \o InsertByKey(Tail(sorted), x)

RECURSIVE ListSort(_)
ListSort(list) ==
    IF list = <<>> THEN <<>>
    ELSE InsertByKey(ListSort(SubSeq(list, 1, Len(list) - 1)), list[Len(list)])

\* ------------------------------------------------------------ Python lists
None == "<None>"

\* list[a:b] and list[a:], 0-based; a slice never raises
PySlice(list, a, b) == SubSeq(list, a + 1, Min(b, Len(list)))

PySliceFrom(list, a) == SubSeq(list, a + 1, Len(list))

\* list[i] raises IndexError unless i < len(list)
HasIndex(list, i) == i < Len(list)

\* int(field) and str(n), for one digit
IntOf(field) == DigitVal(field)

StrOf(n) ==
    CASE n = 0 -> "0" [] n = 1 -> "1" [] n = 2 -> "2" [] n = 3 -> "3"
      [] n = 4 -> "4" [] n = 5 -> "5" [] n = 6 -> "6" [] n = 7 -> "7"
      [] n = 8 -> "8" [] n = 9 -> "9"

Returned(value) == [state |-> "returned", value |-> value]

Raised == [state |-> "raised", value |-> <<>>]

Pending == [state |-> "pending", value |-> <<>>]

\* --------------------------------------------------- merge_data (155-175)
\* line 171/172: [None] * len(rows[0]), evaluated before next() is called
Placeholder(rows) == [i \in 1..Len(rows[1]) |-> None]

Matches(rows, station_info) ==
    { i \in 1..Len(rows) : PySlice(rows[i], 0, 4) = station_info }

\* next((row for row in rows if row[:4] == station_info), default)
FirstMatch(rows, station_info, default) ==
    IF Matches(rows, station_info) = {} THEN default
    ELSE rows[CHOOSE i \in Matches(rows, station_info) :
                 \A j \in Matches(rows, station_info) : i <= j]

\* lines 170-174, one pass of the loop: the merged record, or Raised
MergeRow(tpt_row, tzt_data, txt_data) ==
    IF tzt_data = <<>> \/ txt_data = <<>> THEN Raised     \* tzt_data[0], txt_data[0]
    ELSE
      LET station_info == PySlice(tpt_row, 0, 4)
          tzt_row == FirstMatch(tzt_data, station_info, Placeholder(tzt_data))
          txt_row == FirstMatch(txt_data, station_info, Placeholder(txt_data))
      IN
      IF ~HasIndex(tzt_row, 6) \/ ~HasIndex(txt_row, 4) THEN Raised
      ELSE Returned(station_info \o <<tzt_row[7]>> \o PySlice(tpt_row, 4, 6)
                    \o PySlice(tzt_row, 4, 6) \o <<txt_row[5]>>
                    \o PySliceFrom(tpt_row, 6))

merge_data(tpt_data, tzt_data, txt_data) ==
    IF \E i \in 1..Len(tpt_data) :
          MergeRow(tpt_data[i], tzt_data, txt_data).state = "raised"
    THEN Raised
    ELSE Returned([i \in 1..Len(tpt_data) |->
                      MergeRow(tpt_data[i], tzt_data, txt_data).value])

\* --------------------------------------------- processing_angle (102-120)
\* token.split('=')[1] for the two tokens of the second header row
AfterEquals(token) ==
    CASE token = "Date=2024-01-02" -> "2024-01-02"
      [] token = "Time=10:00:00" -> "10:00:00"

\* (mutant) the third header field taken as the rows of a round
RowsPerRoundAsDeclared(header) == IntOf(header[3])

\* line 106: rows = int(data[0][2]) + 1
RowsPerRound(header) == IntOf(header[3]) + 1

\* line 105: returns = int(data[0][1])
TotalRounds(header) == IntOf(header[2])

IsDataRow(x) == Len(x) # 1

\* lines 115-119: the inner loop from j, for round i (0-based)
RECURSIVE TagRoundFrom(_, _, _, _, _, _)
TagRoundFrom(data, i, j, stop, station_info, date_info) ==
    IF j >= stop THEN data
    ELSE IF j < Len(data)
      THEN TagRoundFrom(
             [data EXCEPT ![j + 1] =
                 station_info \o <<StrOf(i + 1)>> \o data[j + 1] \o date_info],
             i, j + 1, stop, station_info, date_info)
      ELSE data                                            \* break

\* lines 114-119: the outer loop from round i
RECURSIVE TagRoundsFrom(_, _, _, _, _, _)
TagRoundsFrom(data, i, returns, rows, station_info, date_info) ==
    IF i >= returns THEN data
    ELSE TagRoundsFrom(
           TagRoundFrom(data, i, i * rows, (i + 1) * rows, station_info, date_info),
           i + 1, returns, rows, station_info, date_info)

\* file: the rows csv.reader yields
processing_angle(file) ==
    LET station_info == <<file[1][1], file[1][Len(file[1])]>>
        returns == TotalRounds(file[1])
        rows == RowsPerRound(file[1])
        date_info == <<AfterEquals(file[2][2]), AfterEquals(file[2][3])>>
        body == SubSeq(file, 3, Len(file) - 1)             \* data[2:-1]
        data == SelectSeq(body, IsDataRow)                 \* lines 110-111
    IN  TagRoundsFrom(data, 0, returns, rows, station_info, date_info)

\* ------------------------------------------------------------ the inputs
Date_0102 == <<"2","0","2","4","-","0","1","-","0","2">>
Date_0101 == <<"2","0","2","4","-","1","-","0","1">>    \* "2024-1-01", month not padded
Date_0103 == <<"2","0","2","4","-","0","1","-","0","3">>
Date_Bad  == <<"2","0","2","4","-","1","3","-","0","1">> \* month 13
Time_10 == <<"1","0",":","0","0",":","0","0">>
Time_09 == <<"0","9",":","0","0",":","0","0">>
Time_08 == <<"0","8",":","0","0",":","0","0">>

\* date and time of a station's first merged record
Timestamps == { <<Date_0102, Time_10>>, <<Date_0101, Time_09>>,
                <<Date_0103, Time_08>>, <<Date_Bad, Time_10>> }

Complete == {"TPT", "TZT", "TXT"}
\* The file_dict keys of a folder: all three, or a partial group (get_files
\* makes an entry for a folder once it holds one such file).
FileGroups == { Complete, {"TPT", "TXT"}, {"TZT"} }

\* What process_data returns for station s: the merged records, here one
\* record [station, date, time].
BatchOf(s, ts) == << [station |-> s, date |-> ts[1], time |-> ts[2]] >>

\* What process_data can do for station s, by what its three files hold:
\* return the merged records, or take the log-then-exit path.
ProcessDataResults(s) ==
    { [exits |-> TRUE, value |-> <<>>] }
    \cup { [exits |-> FALSE, value |-> BatchOf(s, ts)] : ts \in Timestamps }

\* --------------------------------------------------------------- the state
VARIABLES
    files,            \* self.files: station -> the keys of its file_dict
    max_threads,      \* the argument of process_threaded
    semaphore,        \* semaphore._value
    data_lock,        \* 0: free, s: held by the worker of station s
    data,             \* the shared result list
    processed_files,  \* the nonlocal counter
    threads,          \* the list of started threads (by station)
    wpc,              \* station -> where its worker is in process_files
    temp,             \* station -> its worker's temp (<<>> before line 308)
    loaded,           \* station -> the value its worker read for += 1
    outcome,          \* station -> "none" | "ok" | "exit" (process_data)
    mpc,              \* where the main thread is in process_threaded
    mi,               \* the main thread's loop index
    report,           \* the argument of output_excel (<<>> before the call)
    tpt_data,         \* merge_data: the parsed angle rows
    tzt_data,         \* merge_data: the parsed zenith rows
    txt_data,         \* merge_data: the parsed distance rows
    merged,           \* merge_data: its result
    angle_file,       \* processing_angle: the rows of the export
    angle_out         \* processing_angle: its result

runVars == <<files, max_threads, semaphore, data_lock, data, processed_files,
             threads, wpc, temp, loaded, outcome, mpc, mi, report>>

mergeVars == <<tpt_data, tzt_data, txt_data, merged>>

angleVars == <<angle_file, angle_out>>

vars == <<runVars, mergeVars, angleVars>>

total_files == NumStations

InitRun ==
    /\ files \in [Stations -> FileGroups]
    /\ max_threads \in 1..MaxThreads
    /\ semaphore = max_threads
    /\ data_lock = 0
    /\ data = <<>>
    /\ processed_files = 0
    /\ threads = <<>>
    /\ wpc = [s \in Stations |-> "unstarted"]
    /\ temp = [s \in Stations |-> <<>>]
    /\ loaded = [s \in Stations |-> 0]
    /\ outcome = [s \in Stations |-> "none"]
    /\ mpc = "spawn"
    /\ mi = 1
    /\ report = <<>>

\* what process_threaded never writes
fixed == <<files, max_threads, tpt_data, tzt_data, txt_data, merged,
           angle_file, angle_out>>

\* ------------------------------------------------ the worker, process_files
\* (mutant) an acquire that never blocks
AcquireNoWait(s) ==
    /\ wpc[s] = "acquire"
    /\ semaphore' = semaphore - 1
    /\ wpc' = [wpc EXCEPT ![s] = "process_data"]
    /\ UNCHANGED <<fixed, data_lock, data, processed_files, threads, temp,
                   loaded, outcome, mpc, mi, report>>

\* line 306: semaphore.acquire() blocks while the value is 0
Acquire(s) ==
    /\ wpc[s] = "acquire"
    /\ semaphore > 0
    /\ semaphore' = semaphore - 1
    /\ wpc' = [wpc EXCEPT ![s] = "process_data"]
    /\ UNCHANGED <<fixed, data_lock, data, processed_files, threads, temp,
                   loaded, outcome, mpc, mi, report>>

\* line 308, process_data (lines 189-200): returns the merged records, or
\* on OSError logs and calls exit(): SystemExit unwinds this thread only,
\* through the finally clause.
ProcessData(s) ==
    /\ wpc[s] = "process_data"
    /\ \E r \in ProcessDataResults(s) :
          IF r.exits
            THEN /\ outcome' = [outcome EXCEPT ![s] = "exit"]
                 /\ wpc' = [wpc EXCEPT ![s] = "release"]
                 /\ temp' = temp
            ELSE /\ outcome' = [outcome EXCEPT ![s] = "ok"]
                 /\ wpc' = [wpc EXCEPT ![s] = "data_lock"]
                 /\ temp' = [temp EXCEPT ![s] = r.value]
    /\ UNCHANGED <<fixed, semaphore, data_lock, data, processed_files,
                   threads, loaded, mpc, mi, report>>

\* (mutant) a with block that takes no lock
LockDataNoWait(s) ==
    /\ wpc[s] = "data_lock"
    /\ data_lock' = s
    /\ wpc' = [wpc EXCEPT ![s] = "append"]
    /\ UNCHANGED <<fixed, semaphore, data, processed_files, threads, temp,
                   loaded, outcome, mpc, mi, report>>

\* line 309: with data_lock
LockData(s) ==
    /\ wpc[s] = "data_lock"
    /\ data_lock = 0
    /\ data_lock' = s
    /\ wpc' = [wpc EXCEPT ![s] = "append"]
    /\ UNCHANGED <<fixed, semaphore, data, processed_files, threads, temp,
                   loaded, outcome, mpc, mi, report>>

\* lines 310-311: data.append(temp), then the read of processed_files += 1
AppendData(s) ==
    /\ wpc[s] = "append"
    /\ data' = Append(data, temp[s])
    /\ loaded' = [loaded EXCEPT ![s] = processed_files]
    /\ wpc' = [wpc EXCEPT ![s] = "store"]
    /\ UNCHANGED <<fixed, semaphore, data_lock, processed_files, threads,
                   temp, outcome, mpc, mi, report>>

\* line 311, the write of processed_files += 1; lines 313-314 only print
\* the progress; the with block ends and gives the lock back
StoreCount(s) ==
    /\ wpc[s] = "store"
    /\ processed_files' = loaded[s] + 1
    /\ data_lock' = IF data_lock = s THEN 0 ELSE data_lock
    /\ wpc' = [wpc EXCEPT ![s] = "release"]
    /\ UNCHANGED <<fixed, semaphore, data, threads, temp, loaded, outcome,
                   mpc, mi, report>>

\* lines 315-316: finally: semaphore.release(); the thread ends
Release(s) ==
    /\ wpc[s] = "release"
    /\ semaphore' = semaphore + 1
    /\ wpc' = [wpc EXCEPT ![s] = "done"]
    /\ UNCHANGED <<fixed, data_lock, data, processed_files, threads, temp,
                   loaded, outcome, mpc, mi, report>>

\* ------------------------------------------------------- the main thread
\* (mutant) a test that forgets the zenith file
HasTripleNoZenith(file_dict) == "TPT" \in file_dict /\ "TXT" \in file_dict

\* line 322: if tpt_file and tzt_file and txt_file
HasTriple(file_dict) ==
    "TPT" \in file_dict /\ "TZT" \in file_dict /\ "TXT" \in file_dict

\* lines 318-325: one iteration of the loop over self.files.items(); after
\* the last one the join loop of line 327 begins
Spawn ==
    /\ mpc = "spawn"
    /\ mi <= NumStations
    /\ IF HasTriple(files[mi])
         THEN /\ wpc' = [wpc EXCEPT ![mi] = "acquire"]
              /\ threads' = Append(threads, mi)
         ELSE UNCHANGED <<wpc, threads>>
    /\ IF mi < NumStations
         THEN mpc' = mpc /\ mi' = mi + 1
         ELSE mpc' = "join" /\ mi' = 1
    /\ UNCHANGED <<fixed, semaphore, data_lock, data, processed_files,
                   temp, loaded, outcome, report>>

\* (mutant) a join that returns at once
JoinedNoWait(t) == wpc[t] \in {"acquire", "process_data", "data_lock", "append",
                               "store", "release", "done"}

\* thread.join() returns once the thread has ended
Joined(t) == wpc[t] = "done"

\* lines 327-328: one iteration of the join loop; after the last one the
\* main thread is at the sort of line 331
Join ==
    /\ mpc = "join"
    /\ mi <= Len(threads)
    /\ Joined(threads[mi])
    /\ IF mi < Len(threads)
         THEN mpc' = mpc /\ mi' = mi + 1
         ELSE mpc' = "sort" /\ mi' = mi
    /\ UNCHANGED <<fixed, semaphore, data_lock, data, processed_files,
                   threads, wpc, temp, loaded, outcome, report>>

\* lines 327-328 when no thread was started
JoinNone ==
    /\ mpc = "join"
    /\ threads = <<>>
    /\ mpc' = "sort"
    /\ UNCHANGED <<fixed, semaphore, data_lock, data, processed_files,
                   threads, wpc, temp, loaded, outcome, mi, report>>

\* line 331: data.sort(key=...); a key that raises leaves the list as it
\* was and ends process_threaded with the exception
SortData ==
    /\ mpc = "sort"
    /\ IF \E i \in 1..Len(data) : KeyFails(data[i])
         THEN /\ mpc' = "raised"
              /\ data' = data
         ELSE /\ mpc' = "output_excel"
              /\ data' = ListSort(data)
    /\ UNCHANGED <<fixed, semaphore, data_lock, processed_files, threads,
                   wpc, temp, loaded, outcome, mi, report>>

\* line 334: self.output_excel(data, ...)
OutputExcel ==
    /\ mpc = "output_excel"
    /\ report' = data
    /\ mpc' = "done"
    /\ UNCHANGED <<fixed, semaphore, data_lock, data, processed_files,
                   threads, wpc, temp, loaded, outcome, mi>>

Worker(s) ==
    \/ Acquire(s) \/ ProcessData(s) \/ LockData(s) \/ AppendData(s)
    \/ StoreCount(s) \/ Release(s)

SpawnAndJoin == Spawn \/ Join \/ JoinNone

NoMerge ==
    /\ tpt_data = <<>> /\ tzt_data = <<>> /\ txt_data = <<>> /\ merged = Pending

NoAngle == angle_file = <<>> /\ angle_out = Pending

NoRun ==
    /\ files = [s \in Stations |-> Complete]
    /\ max_threads = 1
    /\ semaphore = 1
    /\ data_lock = 0
    /\ data = <<>>
    /\ processed_files = 0
    /\ threads = <<>>
    /\ wpc = [s \in Stations |-> "unstarted"]
    /\ temp = [s \in Stations |-> <<>>]
    /\ loaded = [s \in Stations |-> 0]
    /\ outcome = [s \in Stations |-> "none"]
    /\ mpc = "idle"
    /\ mi = 1
    /\ report = <<>>

\* the threads of process_threaded, up to the sort
ThreadsStep == SpawnAndJoin \/ \E s \in Stations : Worker(s)

Init == InitRun /\ NoMerge /\ NoAngle

Next == ThreadsStep \/ SortData \/ OutputExcel

Spec == Init /\ [][Next]_vars

\* ------------------------------------------------ merge_data on its own
MergeKeys == { <<"S1", "1.5", "1", "T1">>, <<"S1", "1.5", "1", "T2">>,
               <<"S1", "1.5", "2", "T1">> }

\* rows of processing_angle for a .TPT file: key, left, right, date, time
AngleRows == { k \o <<"HL", "HR", "2024-01-02", "10:00:00">> : k \in MergeKeys }

\* rows of processing_angle for a .TZT file: key, left, right, height,
\* date, time; and a row past the declared rounds, which line 117 never
\* reaches and which stays as read
ZenithRows ==
    { k \o <<"ZL", "ZR", "TH", "2024-01-02", "10:00:00">> : k \in MergeKeys }
    \cup { k \o <<"ZL2", "ZR2", "TH2", "2024-01-02", "10:00:00">> : k \in MergeKeys }
    \cup { <<"T1", "ZL", "ZR", "TH">> }

\* rows of processing_distance: station, height, the row, date, time; the
\* last one comes from an empty line of the file
DistanceRows ==
    { k \o <<"SD", "2024-01-02", "10:00:05">> : k \in MergeKeys }
    \cup { k \o <<"SD2", "2024-01-02", "10:00:05">> : k \in MergeKeys }
    \cup { <<"S1", "1.5", "2024-01-02", "10:00:05">> }

RECURSIVE ListsUpTo(_, _)
ListsUpTo(S, n) ==
    IF n = 0 THEN { <<>> }
    ELSE ListsUpTo(S, n - 1)
         \cup { Append(l, x) : l \in { m \in ListsUpTo(S, n - 1) : Len(m) = n - 1 }, x \in S }

InitMerge ==
    /\ tpt_data \in ListsUpTo(AngleRows, MaxRows)
    /\ tzt_data \in ListsUpTo(ZenithRows, MaxRows)
    /\ txt_data \in ListsUpTo(DistanceRows, MaxRows)
    /\ merged = Pending
    /\ NoRun /\ NoAngle

MergeData ==
    /\ merged = Pending
    /\ merged' = merge_data(tpt_data, tzt_data, txt_data)
    /\ UNCHANGED <<tpt_data, tzt_data, txt_data, runVars, angleVars>>

SpecMerge == InitMerge /\ [][MergeData]_vars

\* -------------------------------------------- processing_angle on its own
Header0(returns, perRound) == <<"S1", StrOf(returns), StrOf(perRound), "1.5">>

Header1 == <<"S1", "Date=2024-01-02", "Time=10:00:00">>

Summary == <<"End", "S1">>

\* a line that names a round, and two observations
BodyRows == { <<"Round">>, <<"T1", "HL", "HR">>, <<"T2", "HL", "HR">> }

InitAngle ==
    /\ \E returns \in 0..MaxRounds, perRound \in 0..MaxPerRound,
          body \in ListsUpTo(BodyRows, MaxBody) :
          angle_file = <<Header0(returns, perRound), Header1>> \o body \o <<Summary>>
    /\ angle_out = Pending
    /\ NoRun /\ NoMerge

ProcessingAngle ==
    /\ angle_out = Pending
    /\ angle_out' = Returned(processing_angle(angle_file))
    /\ UNCHANGED <<angle_file, runVars, mergeVars>>

SpecAngle == InitAngle /\ [][ProcessingAngle]_vars

\* ===================================================== process_threaded
\* the folder of station s lacks one of the three files
LacksFile(s) == \E ext \in {"TPT", "TZT", "TXT"} : ext \notin files[s]

Holding(s) == wpc[s] \in {"process_data", "data_lock", "append", "store", "release"}

Holders == { s \in Stations : Holding(s) }

Spawned == { threads[i] : i \in 1..Len(threads) }

AfterJoin == mpc \in {"sort", "output_excel", "done", "raised"}

Reported == mpc = "done"

StationOf(batch) == batch[1].station

Appended == { s \in Stations : outcome[s] = "ok" /\ wpc[s] \in {"store", "release", "done"} }

Occurrences(list, s) == Cardinality({ i \in 1..Len(list) : StationOf(list[i]) = s })

KeyLeq(a, b) == ~DatetimeLess(SortKey(b), SortKey(a))

\* C1: at most max_threads workers are between semaphore.acquire() and
\* semaphore.release(), however many threads were started and whether
\* process_data returned or took the exit path.
C1_ConcurrencyBound ==
    /\ Cardinality(Holders) <= max_threads
    /\ semaphore = max_threads - Cardinality(Holders)

\* C1 witness: every slot is taken, a worker waits at acquire, and a worker
\* that took the exit path still holds its slot.
C1_Witness ==
    /\ Cardinality(Holders) = max_threads
    /\ \E s \in Stations : wpc[s] = "acquire"
    /\ \E s \in Stations : outcome[s] = "exit" /\ wpc[s] = "release"

\* C2 (the claim as stated): once a worker's process_data has taken the
\* log-then-exit path, output_excel is never called; a report is handed
\* over only when every started worker appended its batch.
C2_NoPartialSuccess ==
    /\ (\E s \in Stations : outcome[s] = "exit") => ~Reported
    /\ Reported => \A s \in Spawned : outcome[s] = "ok" /\ Occurrences(report, s) = 1

\* C3: what output_excel receives is a permutation of the appended batches
\* whose first-record timestamps, parsed, never decrease.
C3_SortedPermutation ==
    Reported =>
        /\ Len(report) = Cardinality(Appended)
        /\ \A s \in Appended : \E i \in 1..Len(report) : report[i] = temp[s]
        /\ \A i \in 1..Len(report) - 1 : KeyLeq(report[i], report[i + 1])

\* C3 witness: a report of three batches in strictly ascending order whose
\* stations are not in folder order.
C3_Witness ==
    /\ Reported
    /\ Len(report) >= 3
    /\ \A i \in 1..Len(report) - 1 :
          DatetimeLess(SortKey(report[i]), SortKey(report[i + 1]))
    /\ StationOf(report[1]) > StationOf(report[2])

\* C4: the sort and output_excel begin only after every started worker
\* thread has ended: none is waiting for the semaphore, in process_data or
\* appending.
C4_JoinBarrier ==
    AfterJoin =>
        /\ \A s \in Stations : wpc[s] \in {"unstarted", "done"}
        /\ \A s \in Stations : ~LacksFile(s) => s \in Spawned /\ wpc[s] = "done"

\* C4 witness: the main thread is about to sort after joining two or more
\* workers, one of which took the exit path.
C4_Witness ==
    /\ mpc = "sort"
    /\ Len(threads) >= 2
    /\ \E s \in Spawned : outcome[s] = "exit"
    /\ \E s \in Spawned : outcome[s] = "ok"

\* C8: a folder without one of TPT, TZT, TXT gets no worker and no batch,
\* and raises nothing: the run is never stuck before the sort (whose guard
\* is the main thread's position alone) and only a timestamp that cannot be
\* parsed ends it early; it starts a worker for every complete triple and
\* hands their batches to output_excel.
C8_PartialTripleSkipped ==
    /\ \A s \in Stations : LacksFile(s) =>
          /\ wpc[s] = "unstarted"
          /\ outcome[s] = "none"
          /\ s \notin Spawned
          /\ Occurrences(data, s) = 0
          /\ Occurrences(report, s) = 0
    /\ mpc = "raised" => \E i \in 1..Len(data) : KeyFails(data[i])
    /\ mpc \in {"spawn", "join"} => ENABLED ThreadsStep
    /\ Reported => \A s \in Stations :
          ~LacksFile(s) =>
              /\ outcome[s] # "none"
              /\ outcome[s] = "ok" => Occurrences(report, s) = 1

\* C8 witness: the report was written in a run with a partial folder and a
\* complete one.
C8_Witness ==
    /\ Reported
    /\ \E s \in Stations : files[s] = {"TPT", "TXT"}
    /\ \E s \in Stations : ~LacksFile(s) /\ Occurrences(report, s) = 1

\* C9: a worker appends its batch exactly once, holding data_lock; the
\* list never shrinks; after the joins, when no worker failed, it holds
\* one batch per complete triple and processed_files is its length.
C9_Collected ==
    /\ \A s \in Stations :
          /\ wpc[s] \in {"append", "store"} => data_lock = s
          /\ Occurrences(data, s) = (IF s \in Appended THEN 1 ELSE 0)
    /\ AfterJoin =>
          /\ processed_files = Len(data)
          /\ (\A s \in Spawned : outcome[s] = "ok") =>
                Len(data) = Cardinality({ s \in Stations : ~LacksFile(s) })

C9_ExactlyOnce == [](C9_Collected) /\ [][Len(data') >= Len(data)]_vars

\* C9 witness: all three workers appended, none failed, and they are joined.
C9_Witness ==
    /\ AfterJoin
    /\ Len(data) >= 3
    /\ \A s \in Spawned : outcome[s] = "ok"
    /\ processed_files = Len(data)

\* The batches in the order of the interleaving in which each worker runs
\* to its end before the next is started (folder order).
RECURSIVE InFolderOrder(_)
InFolderOrder(n) ==
    IF n = 0 THEN <<>>
    ELSE IF n \in Appended THEN Append(InFolderOrder(n - 1), temp[n])
    ELSE InFolderOrder(n - 1)

SequentialReport == ListSort(InFolderOrder(NumStations))

\* C10 (the claim as stated): for the same batches, output_excel receives
\* the same sequence in every interleaving, equal timestamps included: the
\* sequence of the interleaving that appends in folder order.
C10_Deterministic == Reported => report = SequentialReport

DistinctKeys(list) ==
    \A i, j \in 1..Len(list) : i # j => SortKey(list[i]) # SortKey(list[j])

\* C10 (amended): the sequence is the same in every interleaving when the
\* first-record timestamps differ pairwise; batches with equal timestamps
\* come in the order their workers appended them.
C10_DeterministicUpToTies ==
    Reported =>
        /\ DistinctKeys(report) => report = SequentialReport
        /\ \A i, j \in 1..Len(report) :
              i < j =>
                 \/ DatetimeLess(SortKey(report[i]), SortKey(report[j]))
                 \/ /\ SortKey(report[i]) = SortKey(report[j])
                    /\ loaded[StationOf(report[i])] < loaded[StationOf(report[j])]

\* C10 witness: two batches with equal timestamps, appended against the
\* folder order, and reported in the order of their appends.
C10_Witness ==
    /\ Reported
    /\ \E i \in 1..Len(report) - 1 :
          /\ SortKey(report[i]) = SortKey(report[i + 1])
          /\ StationOf(report[i]) > StationOf(report[i + 1])

\* =========================================================== merge_data
NoMatch(rows, tpt_row) ==
    \A i \in 1..Len(rows) : PySlice(rows[i], 0, 4) # PySlice(tpt_row, 0, 4)

\* C5 (the claim as stated): merge_data returns one record per angle row,
\* whatever the zenith and distance rows are, an empty list included.
C5_OnePerAngleRow ==
    merged # Pending =>
        /\ merged.state = "returned"
        /\ Len(merged.value) = Len(tpt_data)

\* C6 (the claim as stated): for an angle row without a zenith (distance)
\* row of its key, merge_data returns, the record's target height and two
\* zenith fields (its slope distance) are None, and its key, its two
\* horizontal angles and its date and time are the angle row's.
C6_GapGivesNone ==
    merged # Pending =>
        /\ merged.state = "returned"
        /\ \A i \in 1..Len(merged.value) :
              LET rec == merged.value[i]
                  tpt_row == tpt_data[i]
              IN
              /\ NoMatch(tzt_data, tpt_row) =>
                    rec[5] = None /\ rec[8] = None /\ rec[9] = None
              /\ NoMatch(txt_data, tpt_row) => rec[10] = None
              /\ (NoMatch(tzt_data, tpt_row) \/ NoMatch(txt_data, tpt_row)) =>
                    /\ SubSeq(rec, 1, 4) = SubSeq(tpt_row, 1, 4)
                    /\ SubSeq(rec, 6, 7) = SubSeq(tpt_row, 5, 6)
                    /\ SubSeq(rec, 11, Len(rec)) = SubSeq(tpt_row, 7, Len(tpt_row))

\* ===================================================== processing_angle
AngleBody == SelectSeq(SubSeq(angle_file, 3, Len(angle_file) - 1), IsDataRow)

DeclaredRounds == IntOf(angle_file[1][2])

DeclaredPerRound == IntOf(angle_file[1][3])

Tagged(row, round) ==
    <<"S1", "1.5", StrOf(round)>> \o row \o <<"2024-01-02", "10:00:00">>

\* C7 (the claim as stated): with R rounds of K rows declared and A body
\* rows, processing_angle returns min(R*K, A) records, the record at
\* position i carrying round i div K + 1.
C7_DeclaredCapacity ==
    angle_out # Pending =>
        /\ Len(angle_out.value) = Min(DeclaredRounds * DeclaredPerRound, Len(AngleBody))
        /\ \A i \in 0..Len(angle_out.value) - 1 :
              /\ DeclaredPerRound > 0
              /\ angle_out.value[i + 1][3] = StrOf(i \div DeclaredPerRound + 1)
              /\ (i \div DeclaredPerRound + 1) \in 1..DeclaredRounds

\* C7 (amended): processing_angle returns all A body rows; a round has
\* K + 1 rows; the row at position i < min(R*(K+1), A) is returned with the
\* station, the instrument height and round i div (K+1) + 1 (in 1..R)
\* before it and the date and time after it; the rows from R*(K+1) on are
\* returned as they were read.
C7_AllRowsKept ==
    angle_out # Pending =>
        /\ angle_out.state = "returned"
        /\ Len(angle_out.value) = Len(AngleBody)
        /\ \A i \in 0..Len(AngleBody) - 1 :
              IF i < DeclaredRounds * (DeclaredPerRound + 1)
                THEN /\ (i \div (DeclaredPerRound + 1) + 1) \in 1..DeclaredRounds
                     /\ angle_out.value[i + 1] =
                           Tagged(AngleBody[i + 1], i \div (DeclaredPerRound + 1) + 1)
                ELSE angle_out.value[i + 1] = AngleBody[i + 1]

\* C7 witness: two rounds are declared, the body holds a round line and
\* more rows than the rounds take, and the parser has returned.
C7_Witness ==
    /\ angle_out # Pending
    /\ DeclaredRounds = 2
    /\ Len(AngleBody) > DeclaredRounds * (DeclaredPerRound + 1)
    /\ Len(AngleBody) < Len(angle_file) - 3
    /\ angle_out.value[2][3] = "2"

=============================================================================
